---- MODULE Spec2Model ----
(***************************************************************************)
(* Request/response envelope of ockam_api (src/.../ockam_api/src/lib.rs):  *)
(* the Request, Response and Error headers and their CBOR map encoding,   *)
(* the TypeTag check, the Segments path parser and the Request/Response   *)
(* builders with their encode.                                             *)
(*                                                                         *)
(* Strings are sequences of one-character strings.  An Option is a        *)
(* sequence of length 0 (None) or 1 (Some).  CBOR output is a sequence of  *)
(* tokens [t, v]: a map header carrying its entry count, then key and      *)
(* value tokens alternating.                                               *)
(***************************************************************************)
EXTENDS Integers, Sequences, FiniteSets, TLC

VARIABLES
    tag,    \* build configuration: cargo feature "tag" enabled
    rb,     \* Option<RequestBuilder>: [header, body]
    pb,     \* Option<ResponseBuilder>: [header, body]
    op,     \* the last operation called, with its argument
    ret,    \* what the last operation returned
    val,    \* codec: <<type, "local" or "peer", what was written>>, None before
    wire,   \* codec: the tokens to decode
    dec,    \* codec: the last decode, <<target type, result>>
    spath,  \* segments: the path given to parse
    sn,     \* segments: the const parameter N
    segs    \* segments: Option of the parsed segments

vars == <<tag, rb, pb, op, ret, val, wire, dec, spath, sn, segs>>

None == <<>>
Some(x) == <<x>>

\* ------------------------------------------------------------------ bounds
MaxId == 1
MaxCode == 6
MaxLen == 5
MaxN == 3
MaxCap == 13

\* ------------------------------------------------------- program constants
REQUEST_TAG == 7586022
RESPONSE_TAG == 9750358
ERROR_TAG == 5359172

Methods == {"Get", "Post", "Put", "Delete", "Patch"}

MethodCode(m) ==
    CASE m = "Get" -> 0
      [] m = "Post" -> 1
      [] m = "Put" -> 2
      [] m = "Delete" -> 3
      [] m = "Patch" -> 4

Statuses == {"Ok", "BadRequest", "Unauthorized", "NotFound",
             "MethodNotAllowed", "InternalServerError", "NotImplemented"}

StatusCode(s) ==
    CASE s = "Ok" -> 200
      [] s = "BadRequest" -> 400
      [] s = "Unauthorized" -> 401
      [] s = "NotFound" -> 404
      [] s = "MethodNotAllowed" -> 405
      [] s = "InternalServerError" -> 500
      [] s = "NotImplemented" -> 501

\* ------------------------------------------------------------- CBOR tokens
UInt(n) == [t |-> "uint", v |-> n]
Text(s) == [t |-> "text", v |-> s]
Bool(b) == [t |-> "bool", v |-> b]
MapHdr(k) == [t |-> "map", v |-> k]

RECURSIVE Flatten(_)
Flatten(entries) ==
    IF entries = <<>> THEN <<>>
    ELSE <<UInt(entries[1][1]), entries[1][2]>> \o Flatten(Tail(entries))

\* #[cbor(map)] encode: a map header counting the entries written, then the
\* entries by ascending index; an Option field that is None is left out.
EncodeMap(entries) == <<MapHdr(Len(entries))>> \o Flatten(entries)

OptEntry(idx, o, tok) == IF o = None THEN <<>> ELSE <<<<idx, tok>>>>

\* TypeTag::encode: the constant N as an unsigned integer.
TypeTagEncode(N) == UInt(N)

TagEntry(tagOn, N) == IF tagOn THEN <<<<0, TypeTagEncode(N)>>>> ELSE <<>>

EncodeMethodOptAsGet(idx, m) ==
    <<<<idx, UInt(IF m = None THEN 0 ELSE MethodCode(m[1]))>>>>

EncodeMethodOpt(idx, m) ==
    OptEntry(idx, m, IF m = None THEN UInt(0) ELSE UInt(MethodCode(m[1])))

EncodeStatusOpt(idx, s) ==
    OptEntry(idx, s, IF s = None THEN UInt(0) ELSE UInt(StatusCode(s[1])))

EncodeRequest(h, tagOn) ==
    EncodeMap(TagEntry(tagOn, REQUEST_TAG)
              \o <<<<1, UInt(h.id)>>, <<2, Text(h.path)>>>>
              \o EncodeMethodOpt(3, h.method)
              \o <<<<4, Bool(h.has_body)>>>>)

EncodeResponse(h, tagOn) ==
    EncodeMap(TagEntry(tagOn, RESPONSE_TAG)
              \o <<<<1, UInt(h.id)>>, <<2, UInt(h.re)>>>>
              \o EncodeStatusOpt(3, h.status)
              \o <<<<4, Bool(h.has_body)>>>>)

EncodeError(e, tagOn) ==
    EncodeMap(TagEntry(tagOn, ERROR_TAG)
              \o <<<<1, Text(e.path)>>>>
              \o EncodeMethodOpt(2, e.method)
              \o OptEntry(3, e.message,
                          IF e.message = None THEN Text(<<>>) ELSE Text(e.message[1])))

\* ---------------------------------------------------------------- decoding
Ok(v) == [ok |-> TRUE, v |-> v]
Err(e) == [ok |-> FALSE, err |-> e]

TagMismatch(N, n) == <<"message", <<"type tag mismatch", N, n>>>>

TypeTagDecodeAny(N, tok) ==
    IF tok.t # "uint" THEN Err(<<"type_mismatch", tok.t>>) ELSE Ok("TypeTag")

\* TypeTag::decode: read a u64, compare with N.
TypeTagDecode(N, tok) ==
    IF tok.t # "uint" THEN Err(<<"type_mismatch", tok.t>>)
    ELSE IF N = tok.v THEN Ok("TypeTag")
    ELSE Err(TagMismatch(N, tok.v))

\* Id is #[cbor(transparent)] over u32.  Every unsigned integer of the model
\* fits u32, so the range check of the read never fails here.
IdDecode(tok) ==
    IF tok.t # "uint" THEN Err(<<"type_mismatch", tok.t>>)
    ELSE Ok(tok.v)

\* #[cbor(index_only)] enum: the index read as an unsigned integer and matched
\* against the #[n(..)] of the variants.
MethodDecode(tok) ==
    IF tok.t # "uint" THEN Err(<<"type_mismatch", tok.t>>)
    ELSE IF \E m \in Methods : MethodCode(m) = tok.v
         THEN Ok(CHOOSE m \in Methods : MethodCode(m) = tok.v)
    ELSE Err(<<"unknown_variant", tok.v>>)

StatusDecode(tok) ==
    IF tok.t # "uint" THEN Err(<<"type_mismatch", tok.t>>)
    ELSE IF \E s \in Statuses : StatusCode(s) = tok.v
         THEN Ok(CHOOSE s \in Statuses : StatusCode(s) = tok.v)
    ELSE Err(<<"unknown_variant", tok.v>>)

TextDecode(tok) ==
    IF tok.t # "text" THEN Err(<<"type_mismatch", tok.t>>) ELSE Ok(tok.v)

BoolDecode(tok) ==
    IF tok.t # "bool" THEN Err(<<"type_mismatch", tok.t>>) ELSE Ok(tok.v)

OptionalKinds == {"method", "status", "opttext"}

\* Decode of one field of the given kind.  An Option field reads null as None
\* and anything else as Some of the inner type.
FieldDecode(kind, N, tok) ==
    LET inner ==
            CASE kind = "tag" -> TypeTagDecode(N, tok)
              [] kind = "id" -> IdDecode(tok)
              [] kind = "text" -> TextDecode(tok)
              [] kind = "bool" -> BoolDecode(tok)
              [] kind = "method" -> MethodDecode(tok)
              [] kind = "status" -> StatusDecode(tok)
              [] kind = "opttext" -> TextDecode(tok)
    IN  IF kind \in OptionalKinds
        THEN IF tok.t = "null" THEN Ok(None)
             ELSE IF inner.ok THEN Ok(Some(inner.v)) ELSE inner
        ELSE inner

KindOf(kinds, key) ==
    IF key + 1 \in DOMAIN kinds THEN kinds[key + 1] ELSE "skip"

\* The loop of the derived map decoder over entries i..k of toks.  vals[j+1]
\* is the Option holding what was decoded for index j.  An unknown key is
\* skipped; an unknown enum variant inside an Option field is skipped and
\* leaves the field as it was; any other error ends the decode.
SkipsErrorNever(kind, e) == FALSE

\* Request::method, Response::status, Error::method are Option<enum> "to be
\* forwards compatible": an unknown variant there is not a decoding error.
SkipsError(kind, e) == kind \in OptionalKinds /\ e[1] = "unknown_variant"

RECURSIVE DecodeEntries(_, _, _, _, _, _)
DecodeEntries(toks, i, k, kinds, N, vals) ==
    IF i > k THEN Ok(vals)
    ELSE LET keyTok == toks[2 * i]
             valTok == toks[2 * i + 1]
         IN  IF keyTok.t # "uint" THEN Err(<<"type_mismatch", keyTok.t>>)
             ELSE LET kind == KindOf(kinds, keyTok.v)
                  IN  IF kind = "skip"
                      THEN DecodeEntries(toks, i + 1, k, kinds, N, vals)
                      ELSE LET r == FieldDecode(kind, N, valTok)
                           IN  IF r.ok
                               THEN DecodeEntries(toks, i + 1, k, kinds, N,
                                        [vals EXCEPT ![keyTok.v + 1] = Some(r.v)])
                               ELSE IF SkipsError(kind, r.err)
                               THEN DecodeEntries(toks, i + 1, k, kinds, N, vals)
                               ELSE r

Missing(kinds, vals) ==
    {j \in DOMAIN kinds :
        kinds[j] \notin (OptionalKinds \cup {"skip"}) /\ vals[j] = None}

Min(S) == CHOOSE x \in S : \A y \in S : x <= y

\* The derived Decode of a #[cbor(map)] struct: the map header, the entries,
\* then every field that is not an Option must have been seen.
DecodeStruct(toks, kinds, N) ==
    IF toks = <<>> THEN Err(<<"end_of_input">>)
    ELSE IF toks[1].t # "map" THEN Err(<<"type_mismatch", toks[1].t>>)
    ELSE IF Len(toks) < 1 + 2 * toks[1].v THEN Err(<<"end_of_input">>)
    ELSE LET k == toks[1].v
             r == DecodeEntries(toks, 1, k, kinds, N, [j \in DOMAIN kinds |-> None])
         IN  IF ~r.ok THEN r
             ELSE IF Missing(kinds, r.v) # {}
             THEN Err(<<"missing_value", Min(Missing(kinds, r.v)) - 1>>)
             ELSE [ok |-> TRUE, v |-> r.v,
                   rest |-> SubSeq(toks, 2 * k + 2, Len(toks))]

\* With the feature off the tag field does not exist: key 0 is an unknown key.
TagKind(tagOn) == IF tagOn THEN "tag" ELSE "skip"

\* An Option field holds Some(Some(x)) / Some(None) when seen, None when absent.
Flat(o) == IF o = None THEN None ELSE o[1]

RequestKinds(tagOn) == <<TagKind(tagOn), "id", "text", "method", "bool">>

DecodeRequest(toks, tagOn) ==
    LET r == DecodeStruct(toks, RequestKinds(tagOn), REQUEST_TAG)
    IN  IF ~r.ok THEN r
        ELSE [ok |-> TRUE, rest |-> r.rest,
              v |-> [id |-> r.v[2][1], path |-> r.v[3][1],
                     method |-> Flat(r.v[4]), has_body |-> r.v[5][1]]]

ResponseKinds(tagOn) == <<TagKind(tagOn), "id", "id", "status", "bool">>

DecodeResponse(toks, tagOn) ==
    LET r == DecodeStruct(toks, ResponseKinds(tagOn), RESPONSE_TAG)
    IN  IF ~r.ok THEN r
        ELSE [ok |-> TRUE, rest |-> r.rest,
              v |-> [id |-> r.v[2][1], re |-> r.v[3][1],
                     status |-> Flat(r.v[4]), has_body |-> r.v[5][1]]]

ErrorKinds(tagOn) == <<TagKind(tagOn), "text", "method", "opttext">>

DecodeError(toks, tagOn) ==
    LET r == DecodeStruct(toks, ErrorKinds(tagOn), ERROR_TAG)
    IN  IF ~r.ok THEN r
        ELSE [ok |-> TRUE, rest |-> r.rest,
              v |-> [path |-> r.v[2][1], method |-> Flat(r.v[3]),
                     message |-> Flat(r.v[4])]]

\* ------------------------------------------------------- value domains
OptOf(S) == {None} \cup {Some(x) : x \in S}

Ids == 0 .. MaxId
Paths == {<<"/", "a">>, <<"a", "/", "b">>}
Messages == {<<>>, <<"e">>}

Requests == [id : Ids, path : Paths, method : OptOf(Methods), has_body : BOOLEAN]
Responses == [id : Ids, re : Ids, status : OptOf(Statuses), has_body : BOOLEAN]
Errors == [path : Paths, method : OptOf(Methods), message : OptOf(Messages)]

\* What a peer may put on the wire: any of the three tag numbers or another
\* number, and method/status codes this version knows and ones it does not.
TagValues == {REQUEST_TAG, RESPONSE_TAG, ERROR_TAG, 0}
PeerCodes == (0 .. MaxCode) \cup {StatusCode(s) : s \in Statuses} \cup {201, 65535}

DropKey(entries, d) ==
    IF d = None THEN entries
    ELSE SelectSeq(entries, LAMBDA e : e[1] # d[1])

PeerTag(t) == IF t = None THEN <<>> ELSE <<<<0, UInt(t[1])>>>>
PeerCode(idx, c) == IF c = None THEN <<>> ELSE <<<<idx, UInt(c[1])>>>>

PeerRequestWire(x, t, c, d) ==
    EncodeMap(DropKey(PeerTag(t) \o <<<<1, UInt(x.id)>>, <<2, Text(x.path)>>>>
                      \o PeerCode(3, c) \o <<<<4, Bool(x.has_body)>>>>, d))

PeerResponseWire(x, t, c, d) ==
    EncodeMap(DropKey(PeerTag(t) \o <<<<1, UInt(x.id)>>, <<2, UInt(x.re)>>>>
                      \o PeerCode(3, c) \o <<<<4, Bool(x.has_body)>>>>, d))

PeerErrorWire(x, t, c, d) ==
    EncodeMap(DropKey(PeerTag(t) \o <<<<1, Text(x.path)>>>> \o PeerCode(2, c)
                      \o (IF x.message = None THEN <<>>
                          ELSE <<<<3, Text(x.message[1])>>>>), d))

\* ----------------------------------------------------------------- builders
\* Request::new; the id is rand::random().
Request_new(method, path, has_body, id) ==
    [id |-> id, path |-> path, method |-> Some(method), has_body |-> has_body]

Request_builder(method, path, id) ==
    [header |-> Request_new(method, path, FALSE, id), body |-> None]

Response_new_swapped(re, status, has_body, id) ==
    [id |-> re, re |-> id, status |-> Some(status), has_body |-> has_body]

\* Response::new; the id is rand::random().
Response_new(re, status, has_body, id) ==
    [id |-> id, re |-> re, status |-> Some(status), has_body |-> has_body]

Response_builder(re, status, id) ==
    [header |-> Response_new(re, status, FALSE, id), body |-> None]

RequestBuilder_id(b, id) == [b EXCEPT !.header.id = id]
RequestBuilder_path(b, path) == [b EXCEPT !.header.path = path]
RequestBuilder_method(b, m) == [b EXCEPT !.header.method = Some(m)]
RequestBuilder_into_parts(b) == <<b.header, b.body>>

RequestBuilder_body_only(b, v) == [header |-> b.header, body |-> Some(v)]

RequestBuilder_body(b, v) ==
    [header |-> [b.header EXCEPT !.has_body = TRUE], body |-> Some(v)]

ResponseBuilder_id_sets_re(b, id) == [b EXCEPT !.header.re = id]

ResponseBuilder_id(b, id) == [b EXCEPT !.header.id = id]
ResponseBuilder_re(b, re) == [b EXCEPT !.header.re = re]
ResponseBuilder_status(b, st) == [b EXCEPT !.header.status = Some(st)]
ResponseBuilder_into_parts(b) == <<b.header, b.body>>

ResponseBuilder_body(b, v) ==
    [header |-> [b.header EXCEPT !.has_body = TRUE], body |-> Some(v)]

\* Body values, by what their Encode impl does: the tokens it writes and, for
\* a custom type whose encode returns an error, after how many of them.
BodyUnit == [name |-> "unit", toks |-> <<[t |-> "array", v |-> 0]>>, fail |-> None]
BodyPair == [name |-> "pair",
             toks |-> <<[t |-> "array", v |-> 1], UInt(7)>>, fail |-> None]
BodyBad == [name |-> "bad", toks |-> <<[t |-> "array", v |-> 1]>>, fail |-> Some(1)]
Bodies == {BodyUnit, BodyPair, BodyBad}

BodyError(name) == <<"message", <<"body encode failed", name>>>>
WriteError == <<"write", "end of sink">>

\* The sink W: Write accepts cap tokens in all and rejects the next write.
WriteAll(sink, toks, cap) ==
    IF Len(sink) + Len(toks) <= cap
    THEN [sink |-> sink \o toks, res |-> Ok("unit")]
    ELSE [sink |-> sink \o SubSeq(toks, 1, cap - Len(sink)), res |-> Err(WriteError)]

\* e.encode(b) for a body b.
EncodeBody(sink, b, cap) ==
    LET k == IF b.fail = None THEN Len(b.toks) ELSE b.fail[1]
        w == WriteAll(sink, SubSeq(b.toks, 1, k), cap)
    IN  IF ~w.res.ok \/ b.fail = None THEN w
        ELSE [sink |-> w.sink, res |-> Err(BodyError(b.name))]

EncodePartsBodyFirst(hdrToks, body, cap) ==
    LET b == IF body = None THEN [sink |-> <<>>, res |-> Ok("unit")]
             ELSE EncodeBody(<<>>, body[1], cap)
        h == WriteAll(b.sink, hdrToks, cap)
    IN  [res |-> IF ~b.res.ok THEN b.res ELSE h.res, sink |-> h.sink,
         hres |-> h.res, bres |-> IF body = None THEN None ELSE Some(b.res)]

EncodePartsSwallow(hdrToks, body, cap) ==
    LET h == WriteAll(<<>>, hdrToks, cap)
    IN  IF ~h.res.ok
        THEN [res |-> h.res, sink |-> h.sink, hres |-> h.res, bres |-> None]
        ELSE IF body = None
        THEN [res |-> Ok("unit"), sink |-> h.sink, hres |-> h.res, bres |-> None]
        ELSE LET b == EncodeBody(h.sink, body[1], cap)
             IN  [res |-> Ok("unit"), sink |-> b.sink,
                  hres |-> h.res, bres |-> Some(b.res)]

\* The body of RequestBuilder::encode and ResponseBuilder::encode:
\*   e.encode(&self.header)?; if let Some(b) = &self.body { e.encode(b)?; } Ok(())
\* hres and bres are the results of the two e.encode calls that were made.
EncodeParts(hdrToks, body, cap) ==
    LET h == WriteAll(<<>>, hdrToks, cap)
    IN  IF ~h.res.ok
        THEN [res |-> h.res, sink |-> h.sink, hres |-> h.res, bres |-> None]
        ELSE IF body = None
        THEN [res |-> Ok("unit"), sink |-> h.sink, hres |-> h.res, bres |-> None]
        ELSE LET b == EncodeBody(h.sink, body[1], cap)
             IN  [res |-> b.res, sink |-> b.sink,
                  hres |-> h.res, bres |-> Some(b.res)]

RequestBuilder_encode(b, cap, tagOn) ==
    EncodeParts(EncodeRequest(b.header, tagOn), b.body, cap)

ResponseBuilder_encode(b, cap, tagOn) ==
    EncodeParts(EncodeResponse(b.header, tagOn), b.body, cap)

\* ---------------------------------------------------------- builder actions
\* One call chain is followed at a time: it starts at a constructor, each
\* method takes the builder by value and returns it, and it ends when
\* into_parts takes the builder apart or the builder is dropped.
NoBuilder == rb = None /\ pb = None
BuilderIdle == /\ rb = None /\ pb = None /\ op = None /\ ret = None
SegIdle == /\ spath = None /\ sn = 0 /\ segs = None
CodecIdle == /\ val = None /\ wire = <<>> /\ dec = None
CodecVars == <<val, wire, dec>>
SegVars == <<spath, sn, segs>>

Init ==
    /\ tag \in BOOLEAN
    /\ BuilderIdle /\ SegIdle /\ CodecIdle

StartRequest(name, m) ==
    /\ NoBuilder
    /\ \E p \in Paths, id \in Ids :
        /\ rb' = Some(Request_builder(m, p, id))
        /\ op' = <<name, p>>
    /\ ret' = None
    /\ UNCHANGED <<tag, pb, CodecVars, SegVars>>

RequestBuilderNew == \E m \in Methods : StartRequest("Request::builder", m)
RequestGet == StartRequest("Request::get", "Get")
RequestPost == StartRequest("Request::post", "Post")
RequestPut == StartRequest("Request::put", "Put")
RequestDelete == StartRequest("Request::delete", "Delete")
RequestPatch == StartRequest("Request::patch", "Patch")

StartResponse(name, st) ==
    /\ NoBuilder
    /\ \E re \in Ids, id \in Ids :
        /\ pb' = Some(Response_builder(re, st, id))
        /\ op' = <<name, re>>
    /\ ret' = None
    /\ UNCHANGED <<tag, rb, CodecVars, SegVars>>

ResponseBuilderNew == \E st \in Statuses : StartResponse("Response::builder", st)
ResponseOk == StartResponse("Response::ok", "Ok")
ResponseBadRequest == StartResponse("Response::bad_request", "BadRequest")
ResponseNotFound == StartResponse("Response::not_found", "NotFound")
ResponseNotImplemented == StartResponse("Response::not_implemented", "NotImplemented")

ReqId ==
    /\ rb # None
    /\ \E id \in Ids :
        /\ rb' = Some(RequestBuilder_id(rb[1], id))
        /\ op' = <<"RequestBuilder::id", id>>
    /\ ret' = None
    /\ UNCHANGED <<tag, pb, CodecVars, SegVars>>

ReqPath ==
    /\ rb # None
    /\ \E p \in Paths :
        /\ rb' = Some(RequestBuilder_path(rb[1], p))
        /\ op' = <<"RequestBuilder::path", p>>
    /\ ret' = None
    /\ UNCHANGED <<tag, pb, CodecVars, SegVars>>

ReqMethod ==
    /\ rb # None
    /\ \E m \in Methods :
        /\ rb' = Some(RequestBuilder_method(rb[1], m))
        /\ op' = <<"RequestBuilder::method", m>>
    /\ ret' = None
    /\ UNCHANGED <<tag, pb, CodecVars, SegVars>>

\* body is defined on RequestBuilder<'a, ()> only: a builder whose body is
\* None or Some(()).
ReqBody ==
    /\ rb # None
    /\ rb[1].body \in {None, Some(BodyUnit)}
    /\ \E v \in Bodies :
        /\ rb' = Some(RequestBuilder_body(rb[1], v))
        /\ op' = <<"RequestBuilder::body", v.name>>
    /\ ret' = None
    /\ UNCHANGED <<tag, pb, CodecVars, SegVars>>

ReqEncode ==
    /\ rb # None
    /\ \E cap \in 0 .. MaxCap :
        /\ ret' = RequestBuilder_encode(rb[1], cap, tag)
        /\ op' = <<"RequestBuilder::encode", cap>>
    /\ UNCHANGED <<tag, rb, pb, CodecVars, SegVars>>

ReqIntoParts ==
    /\ rb # None
    /\ ret' = RequestBuilder_into_parts(rb[1])
    /\ rb' = None
    /\ op' = <<"RequestBuilder::into_parts", 0>>
    /\ UNCHANGED <<tag, pb, CodecVars, SegVars>>

RespId ==
    /\ pb # None
    /\ \E id \in Ids :
        /\ pb' = Some(ResponseBuilder_id(pb[1], id))
        /\ op' = <<"ResponseBuilder::id", id>>
    /\ ret' = None
    /\ UNCHANGED <<tag, rb, CodecVars, SegVars>>

RespRe ==
    /\ pb # None
    /\ \E re \in Ids :
        /\ pb' = Some(ResponseBuilder_re(pb[1], re))
        /\ op' = <<"ResponseBuilder::re", re>>
    /\ ret' = None
    /\ UNCHANGED <<tag, rb, CodecVars, SegVars>>

RespStatus ==
    /\ pb # None
    /\ \E st \in Statuses :
        /\ pb' = Some(ResponseBuilder_status(pb[1], st))
        /\ op' = <<"ResponseBuilder::status", st>>
    /\ ret' = None
    /\ UNCHANGED <<tag, rb, CodecVars, SegVars>>

RespBody ==
    /\ pb # None
    /\ pb[1].body \in {None, Some(BodyUnit)}
    /\ \E v \in Bodies :
        /\ pb' = Some(ResponseBuilder_body(pb[1], v))
        /\ op' = <<"ResponseBuilder::body", v.name>>
    /\ ret' = None
    /\ UNCHANGED <<tag, rb, CodecVars, SegVars>>

RespEncode ==
    /\ pb # None
    /\ \E cap \in 0 .. MaxCap :
        /\ ret' = ResponseBuilder_encode(pb[1], cap, tag)
        /\ op' = <<"ResponseBuilder::encode", cap>>
    /\ UNCHANGED <<tag, rb, pb, CodecVars, SegVars>>

RespIntoParts ==
    /\ pb # None
    /\ ret' = ResponseBuilder_into_parts(pb[1])
    /\ pb' = None
    /\ op' = <<"ResponseBuilder::into_parts", 0>>
    /\ UNCHANGED <<tag, rb, CodecVars, SegVars>>

\* The builder goes out of scope.
Drop ==
    /\ ~NoBuilder
    /\ rb' = None /\ pb' = None
    /\ op' = <<"drop", 0>>
    /\ ret' = None
    /\ UNCHANGED <<tag, CodecVars, SegVars>>

Next ==
    \/ RequestBuilderNew \/ RequestGet \/ RequestPost \/ RequestPut
    \/ RequestDelete \/ RequestPatch
    \/ ResponseBuilderNew \/ ResponseOk \/ ResponseBadRequest
    \/ ResponseNotFound \/ ResponseNotImplemented
    \/ ReqId \/ ReqPath \/ ReqMethod \/ ReqBody \/ ReqEncode \/ ReqIntoParts
    \/ RespId \/ RespRe \/ RespStatus \/ RespBody \/ RespEncode \/ RespIntoParts
    \/ Drop

Spec == Init /\ [][Next]_vars

\* ----------------------------------------------------------- codec actions

CodecInit ==
    /\ tag \in BOOLEAN
    /\ BuilderIdle /\ SegIdle /\ CodecIdle

\* minicbor::encode of a header value built by this program.
SendRequest ==
    /\ val = None
    /\ \E x \in Requests :
        /\ val' = <<"request", "local", x>>
        /\ wire' = EncodeRequest(x, tag)
    /\ UNCHANGED <<tag, rb, pb, op, ret, dec, SegVars>>

SendResponse ==
    /\ val = None
    /\ \E x \in Responses :
        /\ val' = <<"response", "local", x>>
        /\ wire' = EncodeResponse(x, tag)
    /\ UNCHANGED <<tag, rb, pb, op, ret, dec, SegVars>>

SendError ==
    /\ val = None
    /\ \E x \in Errors :
        /\ val' = <<"error", "local", x>>
        /\ wire' = EncodeError(x, tag)
    /\ UNCHANGED <<tag, rb, pb, op, ret, dec, SegVars>>

\* Bytes from a peer: another build or another version of the protocol.
PeerRequest ==
    /\ val = None
    /\ \E x \in [id : Ids, path : Paths, has_body : BOOLEAN],
          t \in OptOf(TagValues), c \in OptOf(PeerCodes), d \in OptOf({1, 2, 4}) :
        /\ val' = <<"request", "peer", [x |-> x, t |-> t, c |-> c, d |-> d]>>
        /\ wire' = PeerRequestWire(x, t, c, d)
    /\ UNCHANGED <<tag, rb, pb, op, ret, dec, SegVars>>

PeerResponse ==
    /\ val = None
    /\ \E x \in [id : Ids, re : Ids, has_body : BOOLEAN],
          t \in OptOf(TagValues), c \in OptOf(PeerCodes), d \in OptOf({1, 2, 4}) :
        /\ val' = <<"response", "peer", [x |-> x, t |-> t, c |-> c, d |-> d]>>
        /\ wire' = PeerResponseWire(x, t, c, d)
    /\ UNCHANGED <<tag, rb, pb, op, ret, dec, SegVars>>

PeerError ==
    /\ val = None
    /\ \E x \in [path : Paths, message : OptOf(Messages)],
          t \in OptOf(TagValues), c \in OptOf(PeerCodes), d \in OptOf({1}) :
        /\ val' = <<"error", "peer", [x |-> x, t |-> t, c |-> c, d |-> d]>>
        /\ wire' = PeerErrorWire(x, t, c, d)
    /\ UNCHANGED <<tag, rb, pb, op, ret, dec, SegVars>>

\* minicbor::decode::<Request> / <Response> / <Error> of the bytes.
DecodeAsRequest ==
    /\ val # None /\ dec = None
    /\ dec' = <<"request", DecodeRequest(wire, tag)>>
    /\ UNCHANGED <<tag, rb, pb, op, ret, val, wire, SegVars>>

DecodeAsResponse ==
    /\ val # None /\ dec = None
    /\ dec' = <<"response", DecodeResponse(wire, tag)>>
    /\ UNCHANGED <<tag, rb, pb, op, ret, val, wire, SegVars>>

DecodeAsError ==
    /\ val # None /\ dec = None
    /\ dec' = <<"error", DecodeError(wire, tag)>>
    /\ UNCHANGED <<tag, rb, pb, op, ret, val, wire, SegVars>>

CodecNext ==
    \/ SendRequest \/ SendResponse \/ SendError
    \/ PeerRequest \/ PeerResponse \/ PeerError
    \/ DecodeAsRequest \/ DecodeAsResponse \/ DecodeAsError

SpecCodec == CodecInit /\ [][CodecNext]_vars

\* ----------------------------------------------------------- builder claims
Called(name) == op # None /\ op[1] = name

\* C1: on every builder reached through the constructors, the setters and
\* body(v), the header's has_body is true exactly when a body is attached.
C1_HasBodyIffBody ==
    /\ rb # None => (rb[1].header.has_body <=> rb[1].body # None)
    /\ pb # None => (pb[1].header.has_body <=> pb[1].body # None)

C1_Witness ==
    /\ Called("RequestBuilder::path")
    /\ rb # None /\ rb[1].body = Some(BodyPair) /\ rb[1].header.has_body

C6_Step ==
    /\ (pb = None /\ pb' # None) => pb'[1].header.re = op'[2]
    /\ (pb # None /\ pb' # None /\ op'[1] # "ResponseBuilder::re")
            => pb'[1].header.re = pb[1].header.re
    /\ (pb # None /\ pb' # None /\ op'[1] = "ResponseBuilder::re")
            => pb'[1].header.re = op'[2]

\* C6: a ResponseBuilder made by builder/ok/bad_request/not_found/
\* not_implemented(re) has re() == re, and the id and status setters and body
\* leave re() as it is; the re setter alone changes it.
C6_RePreserved == [][C6_Step]_vars

C6_Witness ==
    /\ Called("ResponseBuilder::status")
    /\ pb # None /\ pb[1].header.re = 1 /\ pb[1].header.id = 0
    /\ pb[1].body # None

IsPrefix(p, q) == Len(p) <= Len(q) /\ p = SubSeq(q, 1, Len(p))

BodyToks(body) == IF body = None THEN <<>> ELSE body[1].toks

\* C8: encode writes the complete encoded header first and then, only with a
\* body attached, the encoded body right after it, and nothing else: the sink
\* never holds anything but a prefix of header then body; after Ok it holds
\* exactly that, the header decodes from its start and what follows the header
\* is the body's encoding (nothing for a builder without a body).
C8_HeaderThenBody ==
    /\ Called("RequestBuilder::encode") =>
        /\ IsPrefix(ret.sink, EncodeRequest(rb[1].header, tag) \o BodyToks(rb[1].body))
        /\ ret.res.ok =>
            /\ ret.sink = EncodeRequest(rb[1].header, tag) \o BodyToks(rb[1].body)
            /\ DecodeRequest(ret.sink, tag).ok
            /\ DecodeRequest(ret.sink, tag).v = rb[1].header
            /\ DecodeRequest(ret.sink, tag).rest = BodyToks(rb[1].body)
    /\ Called("ResponseBuilder::encode") =>
        /\ IsPrefix(ret.sink, EncodeResponse(pb[1].header, tag) \o BodyToks(pb[1].body))
        /\ ret.res.ok =>
            /\ ret.sink = EncodeResponse(pb[1].header, tag) \o BodyToks(pb[1].body)
            /\ DecodeResponse(ret.sink, tag).ok
            /\ DecodeResponse(ret.sink, tag).v = pb[1].header
            /\ DecodeResponse(ret.sink, tag).rest = BodyToks(pb[1].body)

C8_Witness ==
    /\ Called("RequestBuilder::encode") /\ tag
    /\ rb[1].body = Some(BodyPair) /\ ret.res.ok
    /\ Len(ret.sink) = 13

SameExcept(h1, h2, f) ==
    /\ DOMAIN h1 = DOMAIN h2
    /\ \A g \in DOMAIN h1 \ {f} : h1[g] = h2[g]

ReqSetterStep(f, v) ==
    /\ rb # None /\ rb' # None
    /\ rb'[1].header[f] = v
    /\ SameExcept(rb'[1].header, rb[1].header, f)
    /\ rb'[1].body = rb[1].body
    /\ pb' = pb

RespSetterStep(f, v) ==
    /\ pb # None /\ pb' # None
    /\ pb'[1].header[f] = v
    /\ SameExcept(pb'[1].header, pb[1].header, f)
    /\ pb'[1].body = pb[1].body
    /\ rb' = rb

C9_Step ==
    op' # None =>
        /\ op'[1] = "RequestBuilder::id" => ReqSetterStep("id", op'[2])
        /\ op'[1] = "RequestBuilder::path" => ReqSetterStep("path", op'[2])
        /\ op'[1] = "RequestBuilder::method" => ReqSetterStep("method", Some(op'[2]))
        /\ op'[1] = "ResponseBuilder::id" => RespSetterStep("id", op'[2])
        /\ op'[1] = "ResponseBuilder::re" => RespSetterStep("re", op'[2])
        /\ op'[1] = "ResponseBuilder::status" => RespSetterStep("status", Some(op'[2]))
        /\ op'[1] = "RequestBuilder::into_parts" => ret' = <<rb[1].header, rb[1].body>>
        /\ op'[1] = "ResponseBuilder::into_parts" => ret' = <<pb[1].header, pb[1].body>>

\* C9: each setter replaces its own header field and nothing else (not
\* has_body, not the body), and into_parts returns the header and the body as
\* the builder held them.
C9_SettersFrame == [][C9_Step]_vars

C9_Witness ==
    /\ Called("ResponseBuilder::id")
    /\ pb # None /\ pb[1].header.id = 1 /\ pb[1].header.re = 0
    /\ pb[1].body = Some(BodyPair) /\ pb[1].header.has_body

EncodeCalled == Called("RequestBuilder::encode") \/ Called("ResponseBuilder::encode")

CurHeaderToks ==
    IF Called("RequestBuilder::encode") THEN EncodeRequest(rb[1].header, tag)
    ELSE EncodeResponse(pb[1].header, tag)

CurBody == IF Called("RequestBuilder::encode") THEN rb[1].body ELSE pb[1].body

\* The sink is too small for the header.
HeaderFails == op[2] < Len(CurHeaderToks)

\* The body's own encode returns an error, or the sink is too small for it.
BodyFails ==
    /\ CurBody # None
    /\ \/ CurBody[1].fail # None
       \/ op[2] < Len(CurHeaderToks) + Len(CurBody[1].toks)

BodyErrorExpected ==
    IF CurBody[1].fail # None /\ op[2] >= Len(CurHeaderToks) + CurBody[1].fail[1]
    THEN Err(BodyError(CurBody[1].name)) ELSE Err(WriteError)

C10_State ==
    EncodeCalled =>
        /\ ret.hres.ok <=> ~HeaderFails
        /\ HeaderFails =>
            /\ ret.res = ret.hres /\ ret.res = Err(WriteError)
            /\ ret.bres = None
            /\ IsPrefix(ret.sink, CurHeaderToks)
        /\ (~HeaderFails /\ CurBody = None) => (ret.bres = None /\ ret.res = Ok("unit"))
        /\ (~HeaderFails /\ CurBody # None) =>
            /\ ret.bres # None
            /\ ret.bres[1].ok <=> ~BodyFails
            /\ BodyFails => (ret.res = ret.bres[1] /\ ret.res = BodyErrorExpected)
            /\ ~BodyFails => ret.res = Ok("unit")
        /\ ret.res.ok <=> (~HeaderFails /\ ~BodyFails)

C10_Step ==
    (op' # None /\ op'[1] \in {"RequestBuilder::encode", "ResponseBuilder::encode"})
        => (rb' = rb /\ pb' = pb)

\* C10: encode returns an error exactly when the encoding of the header or of
\* the body fails, and it is that part's error; after a failed header the body
\* is not encoded and none of it reaches the sink; otherwise the result is Ok;
\* the builder is the same after encode as before.
C10_ErrorsPropagate == [](C10_State) /\ [][C10_Step]_vars

C10_Witness ==
    /\ Called("ResponseBuilder::encode")
    /\ pb[1].body = Some(BodyBad) /\ ~HeaderFails
    /\ ret.hres.ok /\ ret.res = Err(BodyError("bad"))
    /\ Len(ret.sink) = Len(CurHeaderToks) + 1

\* ----------------------------------------------------------------- segments
Chars == {"/", "a", "b"}

RECURSIVE StrsOfLen(_)
StrsOfLen(k) ==
    IF k = 0 THEN {<<>>}
    ELSE {<<c>> \o t : c \in Chars, t \in StrsOfLen(k - 1)}

Strs == UNION {StrsOfLen(k) : k \in 0 .. MaxLen}

\* str::starts_with(char)
StartsWith(s, c) == s # <<>> /\ s[1] = c

\* str::trim_start_matches(char): the prefix match is removed repeatedly.
RECURSIVE TrimStartMatches(_, _)
TrimStartMatches(s, c) ==
    IF StartsWith(s, c) THEN TrimStartMatches(Tail(s), c) ELSE s

\* str::strip_prefix(char), were it used instead: the match is removed once.
StripPrefix(s, c) == IF StartsWith(s, c) THEN Tail(s) ELSE s

Find(s, c) ==
    IF \E i \in 1 .. Len(s) : s[i] = c
    THEN Min({i \in 1 .. Len(s) : s[i] = c}) ELSE 0

\* str::splitn(n, char): at most n items, the last one holding the rest.
RECURSIVE SplitN(_, _, _)
SplitN(s, n, c) ==
    IF n = 0 THEN <<>>
    ELSE IF n = 1 \/ Find(s, c) = 0 THEN <<s>>
    ELSE <<SubSeq(s, 1, Find(s, c) - 1)>>
         \o SplitN(SubSeq(s, Find(s, c) + 1, Len(s)), n - 1, c)

Segments_parse_strip_one(s, n) == SplitN(StripPrefix(s, "/"), n, "/")

\* Segments::<N>::parse
Segments_parse(s, n) ==
    IF StartsWith(s, "/")
    THEN SplitN(TrimStartMatches(s, "/"), n, "/")
    ELSE SplitN(s, n, "/")

\* Request::path_segments::<N>
Request_path_segments(h, n) == Segments_parse(h.path, n)

SegInit == Init

SegmentsParse ==
    /\ segs = None
    /\ \E s \in Strs, n \in 0 .. MaxN :
        /\ spath' = s /\ sn' = n
        /\ segs' = Some(Segments_parse(s, n))
        /\ op' = <<"Segments::parse", n>>
    /\ UNCHANGED <<tag, rb, pb, ret, CodecVars>>

PathSegments ==
    /\ segs = None
    /\ \E s \in Strs, n \in 0 .. MaxN, id \in Ids :
        /\ spath' = s /\ sn' = n
        /\ segs' = Some(Request_path_segments(Request_new("Get", s, FALSE, id), n))
        /\ op' = <<"Request::path_segments", n>>
    /\ UNCHANGED <<tag, rb, pb, ret, CodecVars>>

SegNext == SegmentsParse \/ PathSegments

SpecSeg == SegInit /\ [][SegNext]_vars

\* ---------------------------------------------------------- segments claims
RECURSIVE Join(_)
Join(ss) ==
    IF ss = <<>> THEN <<>>
    ELSE IF Len(ss) = 1 THEN ss[1]
    ELSE ss[1] \o <<"/">> \o Join(Tail(ss))

Count(s, c) == Cardinality({i \in 1 .. Len(s) : s[i] = c})

\* ss is s split on '/' into at most n pieces, in order, every separator
\* beyond the (n-1)th left inside the last piece.
IsSplit(ss, s, n) ==
    /\ Len(ss) = IF Count(s, "/") + 1 < n THEN Count(s, "/") + 1 ELSE n
    /\ Join(ss) = s
    /\ \A i \in 1 .. Len(ss) - 1 : Count(ss[i], "/") = 0

LeadingSlashes(s) ==
    CHOOSE k \in 0 .. Len(s) :
        /\ \A i \in 1 .. k : s[i] = "/"
        /\ k = Len(s) \/ s[k + 1] # "/"

WithoutOneSlash(s) ==
    IF s # <<>> /\ s[1] = "/" THEN SubSeq(s, 2, Len(s)) ELSE s

WithoutLeadingSlashes(s) == SubSeq(s, LeadingSlashes(s) + 1, Len(s))

Examples(parse(_, _)) ==
    /\ parse(<<"/", "a", "/", "b", "/", "c">>, 2) = <<<<"a">>, <<"b", "/", "c">>>>
    /\ parse(<<"a">>, 3) = <<<<"a">>>>
    /\ parse(<<"/">>, 1) = <<<<>>>>
    /\ \A n \in 1 .. MaxN : parse(<<>>, n) = <<<<>>>>

\* C3 as stated: for N >= 1, parse returns the split of the path with a single
\* leading '/' removed (a second leading '/' stays), and the examples hold.
C3_StripsOneSlash ==
    (segs # None /\ sn >= 1) =>
        /\ IsSplit(segs[1], WithoutOneSlash(spath), sn)
        /\ Examples(Segments_parse)

\* C3 amended: for N >= 1, parse returns the split of the path with all of its
\* leading '/' removed, and the examples hold.
C3_StripsAllSlashes ==
    (segs # None /\ sn >= 1) =>
        /\ IsSplit(segs[1], WithoutLeadingSlashes(spath), sn)
        /\ Examples(Segments_parse)

C3_Witness ==
    /\ segs = Some(<<<<"a">>, <<"b">>>>)
    /\ spath = <<"/", "/", "a", "/", "b">> /\ sn = 2
    /\ op[1] = "Segments::parse"

\* ------------------------------------------------------------ codec claims
TagOf(ty) ==
    CASE ty = "request" -> REQUEST_TAG
      [] ty = "response" -> RESPONSE_TAG
      [] ty = "error" -> ERROR_TAG

\* The type tag the bytes carry: the value under key 0, the first entry.
WireTag ==
    IF Len(wire) >= 3 /\ wire[2] = UInt(0) /\ wire[3].t = "uint"
    THEN Some(wire[3].v) ELSE None

Decoded == val # None /\ dec # None
SameType == Decoded /\ dec[1] = val[1]
FromPeer == val # None /\ val[2] = "peer"
FromLocal == val # None /\ val[2] = "local"

KnownCodes(ty) ==
    IF ty = "response" THEN {StatusCode(s) : s \in Statuses}
    ELSE {MethodCode(m) : m \in Methods}

\* C2: with tagging enabled, a map without key 0 whose other required fields
\* are present and well formed decodes successfully as the type it was
\* written as.
C2_AbsentTagDecodes ==
    (tag /\ FromPeer /\ SameType /\ val[3].t = None /\ val[3].d = None)
        => dec[2].ok

\* What the derived decoder does with such a map: the tag field is not an
\* Option, so the decode ends with a missing-value error for index 0.
C2_AbsentTagRejected ==
    (tag /\ FromPeer /\ SameType /\ val[3].t = None /\ val[3].d = None)
        => dec[2] = Err(<<"missing_value", 0>>)

\* The fields a peer wrote, with the method/status as an unknown code reads.
PeerFields(ty, x) ==
    CASE ty = "request" ->
            [id |-> x.id, path |-> x.path, method |-> None, has_body |-> x.has_body]
      [] ty = "response" ->
            [id |-> x.id, re |-> x.re, status |-> None, has_body |-> x.has_body]
      [] ty = "error" ->
            [path |-> x.path, method |-> None, message |-> x.message]

UnknownCodeCase ==
    /\ FromPeer /\ SameType
    /\ val[3].c # None /\ val[3].c[1] \notin KnownCodes(val[1])
    /\ val[3].d = None
    /\ (tag => val[3].t = Some(TagOf(val[1])))

C5_RoundTrip ==
    (FromLocal /\ SameType) =>
        /\ dec[2].ok
        /\ dec[2].v = val[3]
        /\ dec[2].rest = <<>>

C5_Witness ==
    /\ FromLocal /\ SameType /\ val[1] = "error"
    /\ val[3].method = None /\ val[3].message = None
    /\ dec[2].ok /\ dec[2].v.method = None /\ dec[2].v.message = None

IsTagMismatch(r) ==
    ~r.ok /\ r.err[1] = "message" /\ r.err[2][1] = "type tag mismatch"

\* C7: with tagging enabled, a type tag n other than the target type's N makes
\* the decode fail with the tag-mismatch error carrying N and n; a tag equal to
\* N is accepted; and what was encoded as one envelope type does not decode as
\* another.
C7_TagChecked ==
    (tag /\ Decoded) =>
        /\ (WireTag # None /\ WireTag[1] # TagOf(dec[1]))
                => dec[2] = Err(TagMismatch(TagOf(dec[1]), WireTag[1]))
        /\ (WireTag = Some(TagOf(dec[1]))) => ~IsTagMismatch(dec[2])
        /\ (WireTag = Some(TagOf(dec[1])) /\ SameType /\ (FromPeer => val[3].d = None))
                => dec[2].ok
        /\ (FromLocal /\ dec[1] # val[1]) => ~dec[2].ok

C7_Witness ==
    /\ tag /\ FromLocal /\ Decoded
    /\ val[1] = "response" /\ dec[1] = "request"
    /\ dec[2] = Err(TagMismatch(REQUEST_TAG, RESPONSE_TAG))

====
